---- MODULE Spec2Model ----
(***************************************************************************)
(* State-machine model of src/app.js: the Express + Mongoose user API      *)
(* (create, read, update, delete, login, profile) with bcrypt password     *)
(* hashing and JWT bearer authentication.                                  *)
(*                                                                         *)
(* Every handler is split at the awaits that touch shared state: the part  *)
(* before the database operation (destructuring, hashing) and the database *)
(* operation together with the response.  A database operation on the      *)
(* users collection (insert, findOneAndUpdate, findOneAndDelete, find) is  *)
(* one atomic step, and the unique index declared on `email` is enforced   *)
(* inside that step.                                                       *)
(*                                                                         *)
(* Library behaviour the handlers rely on (Mongoose >= 6, bcrypt,          *)
(* jsonwebtoken) is modelled by what the library does: casting to String,  *)
(* the `required` validator, removal of undefined keys from an update,     *)
(* salted hashing, NumericDate (whole seconds) expiry.                     *)
(***************************************************************************)
EXTENDS Integers, Sequences, FiniteSets, TLC

VARIABLES users, nextId, now, issued, pc, req, loc, res

vars == <<users, nextId, now, issued, pc, req, loc, res>>

----------------------------------------------------------------------------
(* Bounds of the model *)

\* number of ObjectIds the model lets `new User(...)` generate
MaxId == 2

\* number of tokens the clients hold on to
MaxTokens == 1

Ids == 1..MaxId

\* request slots: the requests that can be in flight at the same time
Procs == {"p1", "p2"}

\* the slot used when requests arrive one after the other
One == {"p1"}

----------------------------------------------------------------------------
(* JavaScript values of the body fields *)

UNDEF == "<undefined>"   \* the field is absent from the body
EMPTY == ""              \* the empty string
ZERO  == "<0>"           \* the JSON number 0

Falsy == {UNDEF, EMPTY, ZERO}

Truthy(v) == v \notin Falsy

IsString(v) == v \notin {UNDEF, ZERO}

Plaintexts == {"pw1", "pw2"}
Salts == {"s1", "s2"}

\* request bodies of the sequential CRUD specification
Bodies ==
    [name : {UNDEF, EMPTY, ZERO, "ann"},
     email : {UNDEF, EMPTY, "a@x", "b@x"},
     password : {UNDEF, EMPTY, "pw1", "pw2"}]

\* request bodies of the concurrent specification
ConcCreateBodies ==
    [name : {"ann"}, email : {"a@x", "b@x"}, password : {"pw1"}]

ConcUpdateBodies ==
    [name : {UNDEF}, email : {UNDEF, "a@x", "b@x"}, password : {UNDEF, "pw2"}]

\* request bodies of the authentication specification
AuthCreateBodies ==
    [name : {"ann"}, email : {"a@x", "b@x"}, password : {"pw1"}]

AuthUpdateBodies ==
    [name : {UNDEF}, email : {UNDEF}, password : {UNDEF, "pw2"}]

LoginBodies ==
    [name : {UNDEF}, email : {UNDEF, "a@x", "b@x"},
     password : {UNDEF, EMPTY, ZERO, "pw1", "pw2"}]

NoBody == [name |-> UNDEF, email |-> UNDEF, password |-> UNDEF]

\* clock readings (Date.now(), milliseconds) the model samples
Instants == {0, 500, 3599500, 3600000, 3600500}

----------------------------------------------------------------------------
(* Mongoose schema: String paths, all required, email unique *)

\* SchemaString cast: a number becomes its decimal text, strings are kept,
\* undefined stays undefined
castString(v) == IF v = ZERO THEN "0" ELSE v

\* the `required` validator of a String path: a non-empty string
checkRequired(v) == v # UNDEF /\ v # EMPTY

\* a schema whose password path is not required
validateDocNoPassword(doc) ==
    /\ doc.name # UNDEF /\ doc.name # EMPTY
    /\ doc.email # UNDEF /\ doc.email # EMPTY

\* document validation run by save() before the pre('save') hooks
validateDoc(doc) ==
    /\ checkRequired(doc.name)
    /\ checkRequired(doc.email)
    /\ checkRequired(doc.password)

\* bcrypt.hash(data, salt): the salt is embedded in the result
bcryptHash(data, salt) == "$2b$" \o salt \o "$" \o data

\* bcrypt.compare(data, hash): re-hash data with the salt embedded in hash
bcryptCompare(data, hash) == \E s \in Salts : bcryptHash(data, s) = hash

\* bcrypt.compare rejects ('data and hash arguments required', 'data and
\* hash must be strings') when data is undefined or not a string
bcryptCompareRejects(data) == ~IsString(data)

\* userSchema.methods.comparePassword
comparePassword(user, candidatePassword) ==
    bcryptCompare(candidatePassword, user.password)

\* a pre('save') hook that stores the password as it came
preSavePlain(doc, modified, salt) == doc

\* userSchema.pre('save'): hash the password when it was modified
preSave(doc, modified, salt) ==
    IF ~modified THEN doc
    ELSE [doc EXCEPT !.password = bcryptHash(doc.password, salt)]

\* a query without the projection
selectAll(u) == u

\* .select('-password')
selectNoPassword(u) == [_id |-> u._id, name |-> u.name, email |-> u.email]

\* { name: user.name, email: user.email, _id: user._id } of create
createSummary(u) == [_id |-> u._id, name |-> u.name, email |-> u.email]

\* { name: user.name, email: user.email, _id: user._id } of update
updateSummary(u) == [_id |-> u._id, name |-> u.name, email |-> u.email]

----------------------------------------------------------------------------
(* The users collection *)

findById(coll, id) == {u \in coll : u._id = id}

findByEmail(coll, email) == {u \in coll : u.email = email}

\* a collection without the unique index
duplicateKeyOff(coll, id, email) == FALSE

\* E11000: the unique index on email rejects a second document with the
\* same email (the document being updated does not collide with itself)
duplicateKey(coll, id, email) == \E u \in coll : u.email = email /\ u._id # id

----------------------------------------------------------------------------
(* Responses *)

NoRes == [status |-> 0, kind |-> "none", users |-> {}, tokens |-> {}]

Reply(status, kind) ==
    [status |-> status, kind |-> kind, users |-> {}, tokens |-> {}]

ReplyUsers(status, kind, us) ==
    [status |-> status, kind |-> kind, users |-> us, tokens |-> {}]

NoReq == [op |-> "none", id |-> 0, body |-> NoBody, header |-> <<>>]

NoLoc == [_id |-> 0, name |-> UNDEF, email |-> UNDEF, password |-> UNDEF]

----------------------------------------------------------------------------

Init ==
    /\ users = {}
    /\ nextId = 1
    /\ now = 0
    /\ issued = {}
    /\ pc = [p \in Procs |-> "idle"]
    /\ req = [p \in Procs |-> NoReq]
    /\ loc = [p \in Procs |-> NoLoc]
    /\ res = [p \in Procs |-> NoRes]

\* the request is answered: the handler of p is finished
Respond(p, r) ==
    /\ pc' = [pc EXCEPT ![p] = "done"]
    /\ res' = [res EXCEPT ![p] = r]
    /\ loc' = [loc EXCEPT ![p] = NoLoc]

Start(p, op, id, body, header) ==
    /\ pc[p] = "idle"
    /\ req' = [req EXCEPT ![p] =
                 [op |-> op, id |-> id, body |-> body, header |-> header]]

\* POST /api/users, up to the insert: new User(...), validation, pre-save hook
CreateBegin(p, body) ==
    /\ Start(p, "create", 0, body, <<>>)
    /\ nextId <= MaxId
    /\ nextId' = nextId + 1
    /\ LET doc == [_id |-> nextId,
                   name |-> castString(body.name),
                   email |-> castString(body.email),
                   password |-> castString(body.password)]
       IN IF ~validateDoc(doc)
          THEN Respond(p, Reply(400, "error"))
          ELSE \E salt \in Salts :
                 /\ loc' = [loc EXCEPT ![p] = preSave(doc, TRUE, salt)]
                 /\ pc' = [pc EXCEPT ![p] = "create_insert"]
                 /\ res' = res
    /\ UNCHANGED <<users, now, issued>>

\* an insert that is not checked against the stored emails
CreateInsertUnchecked(p) ==
    /\ pc[p] = "create_insert"
    /\ users' = users \cup {loc[p]}
    /\ Respond(p, ReplyUsers(201, "message",
                             {[_id |-> loc[p]._id, name |-> loc[p].name,
                               email |-> loc[p].email]}))
    /\ UNCHANGED <<nextId, now, issued, req>>

\* POST /api/users: the insert and the response
CreateInsert(p) ==
    /\ pc[p] = "create_insert"
    /\ IF duplicateKey(users, loc[p]._id, loc[p].email)
       THEN /\ Respond(p, Reply(409, "message"))
            /\ users' = users
       ELSE /\ users' = users \cup {loc[p]}
            /\ Respond(p, ReplyUsers(201, "message", {createSummary(loc[p])}))
    /\ UNCHANGED <<nextId, now, issued, req>>

\* the update document the handler builds: { name, email } and, for a truthy
\* password, its hash
buildUpdateFields(body, salt) ==
    [name |-> body.name,
     email |-> body.email,
     password |-> IF Truthy(body.password)
                  THEN bcryptHash(body.password, salt) ELSE UNDEF]

\* PUT /api/users/:id, up to findByIdAndUpdate
UpdateBegin(p, id, body) ==
    /\ Start(p, "update", id, body, <<>>)
    /\ \E salt \in Salts :
         loc' = [loc EXCEPT ![p] =
                   [_id |-> id] @@ buildUpdateFields(body, salt)]
    /\ pc' = [pc EXCEPT ![p] = "update_apply"]
    /\ UNCHANGED <<users, nextId, now, issued, res>>

\* castUpdate: every value is cast; a key whose value is undefined is removed
\* (represented here by the value staying UNDEF)
castUpdate(f) ==
    [name |-> castString(f.name),
     email |-> castString(f.email),
     password |-> castString(f.password)]

\* runValidators: the validators of the paths that are in the update
validateUpdate(set) ==
    /\ set.name # UNDEF => checkRequired(set.name)
    /\ set.email # UNDEF => checkRequired(set.email)
    /\ set.password # UNDEF => checkRequired(set.password)

\* an update that replaces the document by the update document
applyReplace(u, set) ==
    [_id |-> u._id, name |-> set.name, email |-> set.email,
     password |-> set.password]

\* $set applied to a stored document
applySet(u, set) ==
    [_id |-> u._id,
     name |-> IF set.name # UNDEF THEN set.name ELSE u.name,
     email |-> IF set.email # UNDEF THEN set.email ELSE u.email,
     password |-> IF set.password # UNDEF THEN set.password ELSE u.password]

\* PUT /api/users/:id: findByIdAndUpdate and the response
UpdateApply(p) ==
    /\ pc[p] = "update_apply"
    /\ LET id == loc[p]._id
           set == castUpdate(loc[p])
           found == findById(users, id)
       IN IF ~validateUpdate(set)
          THEN /\ Respond(p, Reply(400, "error"))
               /\ users' = users
          ELSE IF found = {}
          THEN /\ Respond(p, Reply(404, "message"))
               /\ users' = users
          ELSE IF set.email # UNDEF /\ duplicateKey(users, id, set.email)
          THEN /\ Respond(p, Reply(409, "message"))
               /\ users' = users
          ELSE LET old == CHOOSE u \in found : TRUE
                   new == applySet(old, set)
               IN /\ users' = (users \ {old}) \cup {new}
                  /\ Respond(p, ReplyUsers(200, "message", {updateSummary(new)}))
    /\ UNCHANGED <<nextId, now, issued, req>>

\* DELETE /api/users/:id
Delete(p, id) ==
    /\ Start(p, "delete", id, NoBody, <<>>)
    /\ LET found == findById(users, id)
       IN IF found = {}
          THEN /\ Respond(p, Reply(404, "message"))
               /\ users' = users
          ELSE /\ users' = users \ found
               /\ Respond(p, Reply(200, "message"))
    /\ UNCHANGED <<nextId, now, issued>>

\* GET /api/users
List(p) ==
    /\ Start(p, "list", 0, NoBody, <<>>)
    /\ Respond(p, ReplyUsers(200, "users", {selectNoPassword(u) : u \in users}))
    /\ UNCHANGED <<users, nextId, now, issued>>

\* GET /api/users/:id
Get(p, id) ==
    /\ Start(p, "get", id, NoBody, <<>>)
    /\ LET found == findById(users, id)
       IN IF found = {}
          THEN Respond(p, Reply(404, "message"))
          ELSE Respond(p, ReplyUsers(200, "user",
                                     {selectNoPassword(u) : u \in found}))
    /\ UNCHANGED <<users, nextId, now, issued>>

\* the client has read the response; the connection slot is free again
Finish(p) ==
    /\ pc[p] = "done"
    /\ pc' = [pc EXCEPT ![p] = "idle"]
    /\ req' = [req EXCEPT ![p] = NoReq]
    /\ res' = [res EXCEPT ![p] = NoRes]
    /\ UNCHANGED <<users, nextId, now, issued, loc>>

----------------------------------------------------------------------------
(* JSON Web Tokens *)

\* process.env.JWT_SECRET
jwtSecret == "JWT_SECRET"

\* Math.floor(Date.now() / 1000): the NumericDate of a clock reading
clockTimestamp(ms) == ms \div 1000

\* expiresIn: '1h', in seconds
expiresIn == 3600

\* jwt.sign({ userId }, secret, { expiresIn: '1h' }) at clock reading ms
jwtSign(userId, secret, ms) ==
    [kind |-> "jwt", userId |-> userId, iat |-> clockTimestamp(ms),
     exp |-> clockTimestamp(ms) + expiresIn, sig |-> secret]

\* a string that is no JSON Web Token
Garbage == [kind |-> "garbage", userId |-> 0, iat |-> 0, exp |-> 0, sig |-> ""]

\* a token signed with a key that is not the server's
Forge(t) == [t EXCEPT !.sig = "other key"]

\* a verification that does not look at the expiry
jwtVerifyNoExpiry(token, secret, ms) ==
    token.kind # "jwt" \/ token.sig # secret

\* jwt.verify(token, secret) at clock reading ms: the error test
jwtVerifyFails(token, secret, ms) ==
    \/ token.kind # "jwt"
    \/ token.sig # secret
    \/ clockTimestamp(ms) >= token.exp

\* authHeader && authHeader.split(' ')[1]: the header is modelled by its
\* parts; the result is the set holding the token, empty for undefined
headerToken(header) == IF Len(header) >= 2 THEN {header[2]} ELSE {}

\* a middleware that answers 401 for every failure
authenticateTokenOneStatus(header, ms) ==
    IF Len(header) >= 2 /\ header[2].kind = "jwt" /\ header[2].sig = "JWT_SECRET"
         /\ ms \div 1000 < header[2].exp
    THEN [status |-> 0, next |-> TRUE, userId |-> header[2].userId]
    ELSE [status |-> 401, next |-> FALSE, userId |-> 0]

\* authenticateToken: the status it answers with (0 for none), whether it
\* calls next(), and req.user.userId
authenticateToken(header, ms) ==
    LET t == headerToken(header)
    IN IF t = {}
       THEN [status |-> 401, next |-> FALSE, userId |-> 0]
       ELSE LET token == CHOOSE x \in t : TRUE
            IN IF jwtVerifyFails(token, jwtSecret, ms)
               THEN [status |-> 403, next |-> FALSE, userId |-> 0]
               ELSE [status |-> 0, next |-> TRUE, userId |-> token.userId]

\* GET /api/users/profile: the authenticateToken middleware
ProfileAuth(p, header) ==
    /\ Start(p, "profile", 0, NoBody, header)
    /\ LET a == authenticateToken(header, now)
       IN /\ res' = [res EXCEPT ![p] =
                       IF a.status # 0 THEN Reply(a.status, "message") ELSE @]
          /\ pc' = [pc EXCEPT ![p] =
                      IF a.next THEN "profile_lookup" ELSE "done"]
          /\ loc' = [loc EXCEPT ![p] =
                       IF a.next THEN [NoLoc EXCEPT !._id = a.userId] ELSE @]
    /\ UNCHANGED <<users, nextId, now, issued>>

\* GET /api/users/profile: the handler behind the middleware (the first
\* response sent for a request is the one the client gets)
ProfileLookup(p) ==
    /\ pc[p] = "profile_lookup"
    /\ LET found == findById(users, loc[p]._id)
           r == IF found = {}
                THEN Reply(404, "message")
                ELSE ReplyUsers(200, "message",
                                {selectNoPassword(u) : u \in found})
       IN Respond(p, IF res[p].status # 0 THEN res[p] ELSE r)
    /\ UNCHANGED <<users, nextId, now, issued, req>>

\* the client keeps the token it was handed, dropping one it held when it
\* holds MaxTokens already
Hold(i) ==
    IF i \in issued \/ Cardinality(issued) < MaxTokens
    THEN issued' = issued \cup {i}
    ELSE \E old \in issued : issued' = (issued \ {old}) \cup {i}

\* POST /api/users/login
Login(p, body) ==
    /\ Start(p, "login", 0, body, <<>>)
    /\ LET found == findByEmail(users, body.email)
       IN IF found = {}
          THEN /\ Respond(p, Reply(401, "message"))
               /\ issued' = issued
          ELSE LET user == CHOOSE u \in found : TRUE
               IN IF bcryptCompareRejects(body.password)
                  THEN \* the rejection is caught: 500 'Server error'
                       /\ Respond(p, Reply(500, "error"))
                       /\ issued' = issued
                  ELSE IF ~comparePassword(user, body.password)
                  THEN /\ Respond(p, Reply(401, "message"))
                       /\ issued' = issued
                  ELSE LET token == jwtSign(user._id, jwtSecret, now)
                       IN /\ Respond(p, [status |-> 200, kind |-> "message",
                                         users |-> {}, tokens |-> {token}])
                          /\ Hold([token |-> token, at |-> now,
                                   userId |-> user._id])
    /\ UNCHANGED <<users, nextId, now>>

\* the Authorization headers a client can send: none, a scheme without a
\* token, and a token that is garbage, forged, or the one login handed out
Headers ==
    {<<>>, <<"Bearer">>, <<"Bearer", Garbage>>}
      \cup {<<"Bearer", i.token>> : i \in issued}
      \cup {<<"Bearer", Forge(i.token)>> : i \in issued}

\* time passes
Tick ==
    /\ \E t \in Instants : t > now /\ now' = t
    /\ UNCHANGED <<users, nextId, issued, pc, req, loc, res>>

----------------------------------------------------------------------------
(* Sequential CRUD requests, every body *)

Next ==
    \/ \E p \in One, b \in Bodies : CreateBegin(p, b)
    \/ \E p \in One : CreateInsert(p)
    \/ \E p \in One, id \in Ids, b \in Bodies : UpdateBegin(p, id, b)
    \/ \E p \in One : UpdateApply(p)
    \/ \E p \in One, id \in Ids : Delete(p, id)
    \/ \E p \in One : List(p)
    \/ \E p \in One, id \in Ids : Get(p, id)
    \/ \E p \in One : Finish(p)

Spec == Init /\ [][Next]_vars

(* Concurrent create, update and delete requests *)

NextConc ==
    \/ \E p \in Procs, b \in ConcCreateBodies : CreateBegin(p, b)
    \/ \E p \in Procs : CreateInsert(p)
    \/ \E p \in Procs, id \in Ids, b \in ConcUpdateBodies : UpdateBegin(p, id, b)
    \/ \E p \in Procs : UpdateApply(p)
    \/ \E p \in Procs, id \in Ids : Delete(p, id)
    \/ \E p \in Procs : Finish(p)

SpecConc == Init /\ [][NextConc]_vars

(* Registration, password change, deletion, login and profile, with time *)

NextAuth ==
    \/ \E p \in One, b \in AuthCreateBodies : CreateBegin(p, b)
    \/ \E p \in One : CreateInsert(p)
    \/ \E p \in One, id \in Ids, b \in AuthUpdateBodies : UpdateBegin(p, id, b)
    \/ \E p \in One : UpdateApply(p)
    \/ \E p \in One, id \in Ids : Delete(p, id)
    \/ \E p \in One : List(p)
    \/ \E p \in One, id \in Ids : Get(p, id)
    \/ \E p \in One, b \in LoginBodies : Login(p, b)
    \/ \E p \in One, h \in Headers : ProfileAuth(p, h)
    \/ \E p \in One : ProfileLookup(p)
    \/ \E p \in One : Finish(p)
    \/ Tick

SpecAuth == Init /\ [][NextAuth]_vars

----------------------------------------------------------------------------
(* Properties *)

\* the create request of p is inserting: its insert and response happen in
\* this step
Inserting(p) == pc[p] = "create_insert" /\ pc'[p] = "done"

\* the update request of p runs findByIdAndUpdate and answers in this step
Applying(p) == pc[p] = "update_apply" /\ pc'[p] = "done"

\* the stored record with this id, when there is one
Stored(coll, id) == CHOOSE u \in coll : u._id = id

Has(coll, id) == \E u \in coll : u._id = id

\* h is the bcrypt hash of the plaintext pt under some salt
IsHashOf(h, pt) == \E s \in Salts : h = "$2b$" \o s \o "$" \o pt

\* C1: in every reachable state, under every interleaving of create, update
\* and delete requests, no two stored user records have the same email.
C1_EmailUnique ==
    \A u \in users, v \in users : u.email = v.email => u = v

\* two records are stored and a request whose email collided was refused
C1_Witness ==
    /\ Cardinality(users) = 2
    /\ \E p \in Procs :
         pc[p] = "done" /\ req[p].op = "update" /\ res[p].status = 409

\* two create requests of p and q are in flight together, past hashing and
\* before their inserts, with the same email, which no stored record has
Race(p, q) ==
    /\ p # q
    /\ pc[p] = "create_insert" /\ pc[q] = "create_insert"
    /\ loc[p].email = loc[q].email
    /\ \A u \in users : u.email # loc[p].email

\* p has inserted first: it was answered 201 and its record is stored with
\* the email that q, still before its insert, is about to store
Won(p, q) ==
    /\ p # q
    /\ pc[p] = "done" /\ req[p].op = "create" /\ res[p].status = 201
    /\ pc[q] = "create_insert"
    /\ \E u \in users :
         /\ [_id |-> u._id, name |-> u.name, email |-> u.email]
               \in res[p].users
         /\ u.email = loc[q].email

\* C2: of two concurrent create requests with the same unused email, the
\* first to insert is answered 201 and stores its record, and the other one
\* is then answered 409 and stores nothing, whichever of them is first.
C2_ConcurrentCreate ==
    [][\A p \in Procs, q \in Procs :
         /\ (Race(p, q) /\ Inserting(p)) =>
              /\ res'[p].status = 201
              /\ users' = users \cup {loc[p]}
              /\ pc'[q] = "create_insert"
         /\ (Won(p, q) /\ Inserting(q)) =>
              /\ res'[q].status = 409
              /\ users' = users]_vars

\* the loser of a race has been answered 409 next to the winner's 201, and
\* exactly one record with the email is stored; the loser was the first to
\* start (its id is 1, the winner's 2), so the two requests overlapped
C2_Witness ==
    \E p \in Procs, q \in Procs :
      /\ p # q
      /\ pc[p] = "done" /\ req[p].op = "create" /\ res[p].status = 201
      /\ pc[q] = "done" /\ req[q].op = "create" /\ res[q].status = 409
      /\ req[p].body.email = req[q].body.email
      /\ Cardinality({u \in users : u.email = req[p].body.email}) = 1
      /\ \E u \in users : u._id = 2 /\ u.email = req[p].body.email

\* C3: an update request whose body supplies none of name, email and
\* password is answered 400, for an existing id and for a nonexistent one,
\* and leaves every stored record unchanged.
C3_EmptyUpdateRejected ==
    [][\A p \in Procs :
         (Applying(p) /\ req[p].body = NoBody) =>
           res'[p].status = 400 /\ users' = users]_vars

\* C4: every stored password is the hash, computed once, of a plaintext; the
\* record a create request stores holds the hash of the password of its
\* body; a successful update with a truthy password stores the hash of that
\* password; and no other step changes a stored password.
C4_PasswordHashedOnce ==
    /\ [](\A u \in users : \E pt \in Plaintexts : IsHashOf(u.password, pt))
    /\ [][\A p \in Procs :
            /\ (Inserting(p) /\ res'[p].status = 201) =>
                 /\ Has(users', loc[p]._id)
                 /\ IsHashOf(Stored(users', loc[p]._id).password,
                             req[p].body.password)
            /\ (Applying(p) /\ res'[p].status = 200
                  /\ Truthy(req[p].body.password)) =>
                 /\ Has(users', req[p].id)
                 /\ IsHashOf(Stored(users', req[p].id).password,
                             req[p].body.password)
            /\ \A u \in users :
                 (/\ Has(users', u._id)
                  /\ \A q \in Procs :
                       ~(Applying(q) /\ req[q].id = u._id
                           /\ Truthy(req[q].body.password))) =>
                   Stored(users', u._id).password = u.password]_vars

\* a password set by create has been replaced, through update, by the hash
\* of another plaintext
C4_Witness ==
    \E p \in Procs :
      /\ pc[p] = "done" /\ req[p].op = "update" /\ res[p].status = 200
      /\ req[p].body.password = "pw2"
      /\ Has(users, req[p].id)
      /\ IsHashOf(Stored(users, req[p].id).password, "pw2")

\* C5: no user object of any response (list, get, profile, the summaries of
\* create and update) has a password field.
C5_NoPasswordInResponses ==
    \A p \in Procs : \A u \in res[p].users : "password" \notin DOMAIN u

\* a profile response carries the stored user
C5_Witness ==
    \E p \in Procs :
      /\ pc[p] = "done" /\ req[p].op = "profile" /\ res[p].status = 200
      /\ \E u \in users : selectNoPassword(u) \in res[p].users

\* the token of i is accepted by authenticateToken at clock reading ms and
\* yields the id of the user who logged in
Accepted(i, ms) ==
    LET a == authenticateToken(<<"Bearer", i.token>>, ms)
    IN a.next /\ a.status = 0 /\ a.userId = i.userId

\* the token of i is rejected as invalid at clock reading ms
Rejected(i, ms) ==
    LET a == authenticateToken(<<"Bearer", i.token>>, ms)
    IN ~a.next /\ a.status = 403

\* C6 as stated: a token is accepted at every instant before one hour after
\* its issuance and rejected at every instant after its expiry.
C6_ValidForOneHour ==
    \A i \in issued :
      /\ now < i.at + 3600000 => Accepted(i, now)
      /\ now > i.token.exp * 1000 => Rejected(i, now)

\* C6 amended: the expiry of a token is the whole second of its issuance
\* plus 3600 seconds; the token is accepted, and yields the user's id, at
\* every instant before its expiry, rejected at its expiry and after it,
\* and the store has no part in this.
C6_ValidUntilExpirySecond ==
    \A i \in issued :
      LET expiry == ((i.at \div 1000) + 3600) * 1000
      IN /\ i.token.exp * 1000 = expiry
         /\ now < expiry => Accepted(i, now)
         /\ now >= expiry => Rejected(i, now)

\* a token is still accepted in the last second before its expiry, after the
\* user it was issued to has been deleted
C6_Witness ==
    \E i \in issued :
      /\ now = 3599500
      /\ i.at = 500
      /\ Accepted(i, now)
      /\ ~Has(users, i.userId)

\* the token is one that login handed out and its expiry is still ahead
GoodToken(t, ms) ==
    /\ \E i \in issued : i.token = t
    /\ ms \div 1000 < t.exp

\* C7: a profile request without a bearer token is answered 401; with a
\* token that is malformed, wrongly signed or expired, 403; in both cases
\* the handler's store lookup never runs; with a valid token the lookup runs
\* and answers 404 when the token's user is not stored, and 200 with that
\* user when it is.
C7_ProfileStatus ==
    /\ [](\A p \in Procs : pc[p] = "profile_lookup" => res[p] = NoRes)
    /\ [][\A p \in Procs :
            /\ (pc[p] = "idle" /\ req'[p].op = "profile") =>
                 LET h == req'[p].header
                 IN IF Len(h) < 2
                    THEN res'[p].status = 401 /\ pc'[p] = "done"
                    ELSE IF ~GoodToken(h[2], now)
                    THEN res'[p].status = 403 /\ pc'[p] = "done"
                    ELSE /\ pc'[p] = "profile_lookup"
                         /\ res'[p] = NoRes
                         /\ loc'[p]._id = h[2].userId
            /\ (pc[p] = "profile_lookup" /\ pc'[p] = "done") =>
                 IF Has(users, loc[p]._id)
                 THEN /\ res'[p].status = 200
                      /\ \A u \in res'[p].users : u._id = loc[p]._id
                      /\ \E u \in users :
                           /\ u._id = loc[p]._id
                           /\ res'[p].users =
                                {[_id |-> u._id, name |-> u.name,
                                  email |-> u.email]}
                 ELSE res'[p].status = 404 /\ res'[p].users = {}
            /\ (req'[p].op = "profile" /\ res'[p].status \in {200, 404}) =>
                 pc[p] \in {"profile_lookup", "done"}]_vars

\* a profile request with a valid token was answered 404: its user was
\* deleted after the login
C7_Witness ==
    \E p \in Procs :
      /\ pc[p] = "done" /\ req[p].op = "profile" /\ res[p].status = 404
      /\ Len(req[p].header) = 2
      /\ GoodToken(req[p].header[2], now)

\* the password verifies against the stored hash
Verifies(password, hash) == IsString(password) /\ IsHashOf(hash, password)

\* C8: login is answered 200 with a token exactly when a stored user has the
\* email and the password verifies against its hash; otherwise (also when
\* email or password is omitted) it is answered 401; login leaves the store
\* as it is.
C8_LoginStatus ==
    \A p \in Procs :
      (pc[p] = "done" /\ req[p].op = "login") =>
        LET ok == \E u \in users :
                    /\ u.email = req[p].body.email
                    /\ Verifies(req[p].body.password, u.password)
        IN /\ res[p].status = 200 <=> ok
           /\ res[p].status = 200 => res[p].tokens # {}
           /\ ~ok => res[p].status = 401

\* the fields of the body that C9 as stated counts as not supplied
\* (absent, or present but empty or falsy) keep their stored value
KeepsFalsy(old, new, body) ==
    /\ body.name \in Falsy => new.name = old.name
    /\ body.email \in Falsy => new.email = old.email
    /\ body.password \in Falsy => new.password = old.password

\* C9 as stated: a successful update keeps every field that is absent from
\* the body or present but empty or falsy, keeps the id, and modifies no
\* other record.
C9_UpdateKeepsUnsupplied ==
    [][\A p \in Procs :
         (Applying(p) /\ res'[p].status = 200) =>
           /\ Has(users, req[p].id) /\ Has(users', req[p].id)
           /\ KeepsFalsy(Stored(users, req[p].id), Stored(users', req[p].id),
                         req[p].body)
           /\ \A u \in users : u._id # req[p].id => u \in users'
           /\ {u._id : u \in users'} = {u._id : u \in users}]_vars

\* C9 amended: a successful update keeps the name and the email that are
\* absent from the body and the password that is absent, empty or falsy;
\* a name or email that is present is stored as its String cast (0 becomes
\* "0") and a truthy password as its hash; the id is kept and no other
\* record is modified.
C9_UpdateKeepsAbsent ==
    [][\A p \in Procs :
         (Applying(p) /\ res'[p].status = 200) =>
           /\ Has(users, req[p].id) /\ Has(users', req[p].id)
           /\ LET old == Stored(users, req[p].id)
                  new == Stored(users', req[p].id)
                  body == req[p].body
              IN /\ new.name = IF body.name = UNDEF THEN old.name
                               ELSE IF body.name = ZERO THEN "0"
                               ELSE body.name
                 /\ new.email = IF body.email = UNDEF THEN old.email
                                ELSE IF body.email = ZERO THEN "0"
                                ELSE body.email
                 /\ IF body.password \in Falsy
                    THEN new.password = old.password
                    ELSE IsHashOf(new.password, body.password)
           /\ \A u \in users : u._id # req[p].id => u \in users'
           /\ {u._id : u \in users'} = {u._id : u \in users}]_vars

\* an update that supplied a name and an empty password has changed the
\* name and kept the email and the password, next to another record
C9_Witness ==
    \E p \in Procs :
      /\ pc[p] = "done" /\ req[p].op = "update" /\ res[p].status = 200
      /\ req[p].body = [name |-> ZERO, email |-> UNDEF, password |-> EMPTY]
      /\ Cardinality(users) = 2
      /\ \E u \in users : u._id = req[p].id /\ u.email = "b@x"
                          /\ u.name = "0" /\ IsHashOf(u.password, "pw2")

\* C10 as stated: a create request that omits one of name, email and
\* password is answered 400 and adds no record; one with all three present
\* is not refused, and when its email is not stored it is answered 201 and
\* adds exactly one record, with an id that no earlier request was given.
C10_CreatePresent ==
    [][\A p \in Procs :
         /\ (pc[p] = "idle" /\ req'[p].op = "create") =>
              LET body == req'[p].body
              IN IF UNDEF \in {body.name, body.email, body.password}
                 THEN /\ res'[p].status = 400
                      /\ users' = users
                 ELSE pc'[p] = "create_insert"
         /\ (Inserting(p) /\ \A u \in users : u.email # loc[p].email) =>
              /\ res'[p].status = 201
              /\ \E u \in users' :
                   /\ users' = users \cup {u} /\ u \notin users
                   /\ \A v \in users : v._id # u._id]_vars

\* C10 amended: a create request in which one of name, email and password is
\* omitted or is the empty string is answered 400 and adds no record; one in
\* which all three are present and not empty goes on to the insert, and when
\* its email is not stored then, it is answered 201 and adds exactly one
\* record, whose id is new: greater than every id given out before it.
C10_CreateNonEmpty ==
    /\ [](\A u \in users : u._id < nextId)
    /\ [][\A p \in Procs :
            /\ (pc[p] = "idle" /\ req'[p].op = "create") =>
                 LET body == req'[p].body
                 IN IF {UNDEF, EMPTY} \cap
                         {body.name, body.email, body.password} # {}
                    THEN /\ res'[p].status = 400
                         /\ pc'[p] = "done"
                         /\ users' = users
                    ELSE /\ pc'[p] = "create_insert"
                         /\ loc'[p]._id >= nextId
                         /\ nextId' > loc'[p]._id
                         /\ users' = users
            /\ (Inserting(p) /\ \A u \in users : u.email # loc[p].email) =>
                 /\ res'[p].status = 201
                 /\ \E u \in users' :
                      /\ users' = users \cup {u} /\ u \notin users
                      /\ u._id = loc[p]._id
                      /\ u.email = req[p].body.email
                      /\ \A v \in users : v._id # u._id]_vars

\* a record was created, with the id 2, after a create request that was
\* refused for a missing field and was given the id 1
C10_Witness ==
    \E p \in Procs :
      /\ pc[p] = "done" /\ req[p].op = "create" /\ res[p].status = 201
      /\ \E u \in users : users = {u} /\ u._id = 2
      /\ nextId = 3

====
